---- MODULE Spec2Model ----
(***************************************************************************)
(* Room / game-session engine of sketch-squad (server/index.js).           *)
(*                                                                         *)
(* The server is a single Node.js event loop.  A handler runs without      *)
(* interruption until it awaits real I/O (fs.writeFile in saveRooms,       *)
(* fs.readFile in getWords); awaiting getRooms() only crosses a microtask  *)
(* boundary, which no timer or socket event can interleave with.  Every    *)
(* action below is therefore one run of a handler between two I/O awaits,  *)
(* and "tasks" holds the continuations that are suspended on I/O.          *)
(***************************************************************************)
EXTENDS Integers, Sequences, FiniteSets, Bags, TLC

VARIABLES
    rooms,       \* roomsCache: room id -> room record (the one shared object)
    usedIds,     \* ids generateRoomId has handed out
    now,         \* new Date(): the clock, in hours
    disk,        \* whether fs.writeFile on rooms.json succeeds or throws
    dropped,     \* the clients whose socket has disconnected
    intervals,   \* per room id: setInterval handles not yet cleared
    timeouts,    \* per room id: pending setTimeout (grace delay) callbacks
    overdue,     \* per room id: live intervals set before the pending grace
                 \* delay that have not run since (1 s runs out before 5 s)
    tasks,       \* continuations suspended on file I/O
    last,        \* the reply the last step gave to a command's callback
    published,   \* the events the last step emitted with io.to(room).emit
    timerLog,    \* per room id: the latest timerUpdate value published, if any
    drawLog,     \* per room id: drawers of the consecutive rounds of the
                 \* current game since the last join or leave
    endedLog     \* per room id: number and word of the round endRound has
                 \* ended and the timer callback has not announced yet

vars == <<rooms, usedIds, now, disk, dropped, intervals, timeouts, overdue, tasks, last, published,
          timerLog, drawLog, endedLog>>

----------------------------------------------------------------------------
\* Bounds of the model

\* continuations suspended on I/O at the same time
MaxInFlight == 1
\* the same where a startGame arrives during the write of another handler
MaxInFlightRace == 2
\* setInterval handles alive for one room id at the same time
MaxTimers == 2
\* pending grace-delay callbacks for one room id at the same time
MaxTimeouts == 1
\* messages sent to one room
MaxMessages == 2
\* the hour at which the clock of the model stops
MaxNow == 12

RoomIds == {"r1"}
PlayerIds == {"p1", "p2"}
HostIds == {"p1"}

\* settings a host may pass to createRoom
SettingsChoices ==
    { [maxPlayers |-> 2, roundDuration |-> 2, rounds |-> 1],
      [maxPlayers |-> 2, roundDuration |-> 2, rounds |-> 2] }

\* the settings of SpecScenario: a room of two, one round
ScenarioSettings ==
    { [maxPlayers |-> 2, roundDuration |-> 2, rounds |-> 1] }

\* the clients and the settings of SpecCrowd: one client more than the room
\* takes
CrowdPlayers == {"p1", "p2", "p3"}
CrowdSettings ==
    { [maxPlayers |-> 2, roundDuration |-> 1, rounds |-> 1] }

\* the settings of SpecReaper
ReaperSettings ==
    { [maxPlayers |-> 2, roundDuration |-> 1, rounds |-> 1] }

\* the clients and the settings of SpecRotation
RotationPlayers == {"p1", "p2", "p3"}
RotationSettings ==
    { [maxPlayers |-> 3, roundDuration |-> 1, rounds |-> 3] }

----------------------------------------------------------------------------
\* Program constants

\* the words of the list (two of the twenty-five)
WORDS == << <<"c", "a", "t">>, <<"d", "o", "g">> >>

Award == 100
MinPlayers == 2
\* the longest life of a room, in hours
MaxAgeHours == 6

GuessedMarker == <<"#", "G">>
AlreadyMarker == <<"#", "A">>

\* texts a client may send
Texts == { <<" ", "C", "a", "T", " ">> }

\* texts of a chat: the word in another case between blanks, and small talk
ChatTexts == Texts \cup { <<"h", "i">> }

Null == "null"
Undefined == "undefined"

----------------------------------------------------------------------------
\* Strings are sequences of characters

LowerChar(c) ==
    CASE c = "C" -> "c"
      [] c = "A" -> "a"
      [] c = "T" -> "t"
      [] c = "D" -> "d"
      [] c = "O" -> "o"
      [] c = "G" -> "g"
      [] c = "H" -> "h"
      [] c = "I" -> "i"
      [] OTHER -> c

\* a comparison that forgets to fold the case
toLowerCaseKeepsCase(s) == s

toLowerCase(s) == [i \in 1..Len(s) |-> LowerChar(s[i])]

RECURSIVE trimStart(_)
trimStart(s) ==
    IF s # <<>> /\ Head(s) = " " THEN trimStart(Tail(s)) ELSE s

RECURSIVE trimEnd(_)
trimEnd(s) ==
    IF s # <<>> /\ s[Len(s)] = " " THEN trimEnd(SubSeq(s, 1, Len(s) - 1)) ELSE s

trim(s) == trimEnd(trimStart(s))

\* message.text.toLowerCase().trim() === currentWord.toLowerCase().trim()
TextMatches(text, word) == trim(toLowerCase(text)) = trim(toLowerCase(word))

----------------------------------------------------------------------------
\* Arrays

Range(s) == {s[i] : i \in 1..Len(s)}

\* Array.prototype.findIndex on the players array, 0 for -1
FindIndex(players, id) ==
    IF \E i \in 1..Len(players) : players[i].id = id
    THEN CHOOSE i \in 1..Len(players) :
            /\ players[i].id = id
            /\ \A j \in 1..(i - 1) : players[j].id # id
    ELSE 0

\* players.filter(p => p.isConnected)
RECURSIVE ConnectedPlayers(_)
ConnectedPlayers(players) ==
    IF players = <<>> THEN <<>>
    ELSE IF Head(players).isConnected
         THEN <<Head(players)>> \o ConnectedPlayers(Tail(players))
         ELSE ConnectedPlayers(Tail(players))

Ids(players) == {players[i].id : i \in 1..Len(players)}

----------------------------------------------------------------------------
\* Replies, events, tasks

NoReply == [op |-> "none", room |-> Null, player |-> Null, success |-> FALSE,
            message |-> "", isCorrect |-> FALSE, text |-> <<>>]

Reply(op, r, p, ok, msg) ==
    [op |-> op, room |-> r, player |-> p, success |-> ok,
     message |-> msg, isCorrect |-> FALSE, text |-> <<>>]

Event(type, r, payload) == [type |-> type, room |-> r, payload |-> payload]

\* the payload rooms[roomId]: the room, or nothing when it is undefined
Snapshot(rs, r) == IF r \in DOMAIN rs THEN <<rs[r]>> ELSE <<>>

Task(kind, r, arg) == [kind |-> kind, room |-> r, arg |-> arg]

\* tasks is a bag: two runs of one handler may be suspended at the same place
CanSuspend == BagCardinality(tasks) < MaxInFlight
Suspend(ts, t) == ts (+) SetToBag({t})
Resume(ts, t) == ts (-) SetToBag({t})
Suspended(t) == BagIn(t, tasks)
TaskSet == BagToSet(tasks)

----------------------------------------------------------------------------
\* The store

\* a cache that is only replaced when the file was written
saveRoomsKeepsCacheOnFailure(rs) == IF disk = "ok" THEN rs ELSE rooms

\* saveRooms: roomsCache = rooms, then fs.writeFile; an error of the write is
\* caught and logged.  The value is the cache after the call.
saveRooms(rs) ==
    IF disk = "ok"
    THEN rs    \* the cache is set and the file is written
    ELSE rs    \* the cache is set, writeFile throws, the error is logged

Put(rs, r, room) == [x \in (DOMAIN rs) \cup {r} |-> IF x = r THEN room ELSE rs[x]]
Remove(rs, r) == [x \in (DOMAIN rs) \ {r} |-> rs[x]]

NewRoom(hostId, settings) ==
    [hostId |-> hostId,
     settings |-> settings,
     players |-> <<>>,
     messages |-> <<>>,
     currentRound |-> 0,
     totalRounds |-> settings.rounds,
     currentWord |-> <<>>,
     drawingPlayerId |-> Null,
     gameStatus |-> "waiting",
     roundTimeLeft |-> settings.roundDuration,
     correctGuessers |-> <<>>,
     createdAt |-> now]

NewPlayer(id) == [id |-> id, score |-> 0, isDrawing |-> FALSE, isConnected |-> TRUE]

\* the drawers of the rounds played in a row: restarted by every join, leave
\* and startGame
FreshDrawLog(room) ==
    IF room.gameStatus \in {"playing", "roundEnd"} /\ room.drawingPlayerId # Null
    THEN <<room.drawingPlayerId>>
    ELSE <<>>

ResetDrawLog(r, rs) ==
    [drawLog EXCEPT ![r] = IF r \in DOMAIN rs THEN FreshDrawLog(rs[r]) ELSE <<>>]

----------------------------------------------------------------------------
Init ==
    /\ rooms = [x \in {} |-> Undefined]
    /\ usedIds = {}
    /\ now = 0
    /\ disk = "ok"
    /\ dropped = {}
    /\ intervals = [r \in RoomIds |-> 0]
    /\ timeouts = [r \in RoomIds |-> 0]
    /\ overdue = [r \in RoomIds |-> 0]
    /\ tasks = EmptyBag
    /\ last = NoReply
    /\ published = <<>>
    /\ timerLog = [r \in RoomIds |-> <<>>]
    /\ drawLog = [r \in RoomIds |-> <<>>]
    /\ endedLog = [r \in RoomIds |-> <<>>]

----------------------------------------------------------------------------
\* createRoom (socket handler and function)

\* generateRoomId: an id not handed out before
generateRoomId(r) == r \in RoomIds \ usedIds

\* The id of a room reaches the clients in the reply of createRoom and
\* nowhere else: clients send commands for the ids they were told.
Announced(r) ==
    /\ r \in usedIds
    /\ \A t \in TaskSet : t.room = r => t.kind \notin {"createRoom.save", "createRoom.joinSave"}

\* a test that never finds the room full
IsFullNever(room) == FALSE

\* a test that lets one player too many in
IsFullAboveMax(room) == Len(room.players) > room.settings.maxPlayers

\* players.length >= settings.maxPlayers
IsFull(room) == Len(room.players) >= room.settings.maxPlayers

\* what a client sends as player: its id (name and avatar play no part)
Payload(p) == [id |-> p]

\* a merge that starts the player over
MergeForgets(existing, player) == NewPlayer(player.id)

\* {...existing, ...player, isConnected: true}
Merge(existing, player) ==
    [f \in (DOMAIN existing) \cup (DOMAIN player) \cup {"isConnected"} |->
        IF f = "isConnected" THEN TRUE
        ELSE IF f \in DOMAIN player THEN player[f]
        ELSE existing[f]]

\* joinRoom up to its saveRooms: the reply and the store it leaves
JoinResult(rs, r, p) ==
    IF r \notin DOMAIN rs
    THEN [success |-> FALSE, message |-> "Room not found", rooms |-> rs]
    ELSE LET room == rs[r]
             i == FindIndex(room.players, p)
         IN IF i # 0
            THEN [success |-> TRUE, message |-> "",
                  rooms |-> [rs EXCEPT ![r].players[i] = Merge(@, Payload(p))]]
            ELSE IF IsFull(room)
                 THEN [success |-> FALSE, message |-> "Room is full", rooms |-> rs]
                 ELSE [success |-> TRUE, message |-> "",
                       rooms |-> [rs EXCEPT ![r].players = Append(@, NewPlayer(p))]]

\* socket.on('createRoom') up to the saveRooms of createRoom
CreateRoom(r, hostId, settings) ==
    /\ generateRoomId(r)
    /\ CanSuspend
    /\ usedIds' = usedIds \cup {r}
    /\ rooms' = saveRooms(Put(rooms, r, NewRoom(hostId, settings)))
    /\ tasks' = Suspend(tasks, Task("createRoom.save", r, hostId))
    /\ last' = Reply("createRoom", r, hostId, TRUE, "")
    /\ published' = <<>>
    /\ drawLog' = ResetDrawLog(r, rooms')
    /\ UNCHANGED <<now, disk, dropped, endedLog, intervals, timeouts, overdue, timerLog>>

\* createRoom returned: the handler joins the host, up to joinRoom's saveRooms
\* (or to the callback when joinRoom fails before saving)
CreateRoomJoin(r, hostId) ==
    LET t == Task("createRoom.save", r, hostId)
        res == JoinResult(rooms, r, hostId)
    IN /\ Suspended(t)
       /\ rooms' = (IF res.success THEN saveRooms(res.rooms) ELSE res.rooms)
       /\ IF res.success
          THEN /\ tasks' = Suspend(Resume(tasks, t), Task("createRoom.joinSave", r, hostId))
               /\ last' = Reply("createRoom.joinRoom", r, hostId, TRUE, "")
               /\ drawLog' = ResetDrawLog(r, rooms')
          ELSE /\ tasks' = Resume(tasks, t)
               /\ last' = Reply("createRoom.reply", r, hostId, TRUE, res.message)
               /\ UNCHANGED drawLog
       /\ published' = <<>>
       /\ UNCHANGED <<usedIds, now, disk, dropped, endedLog, intervals, timeouts, overdue, timerLog>>

\* joinRoom returned: callback({roomId, success: true})
CreateRoomReply(r, hostId) ==
    LET t == Task("createRoom.joinSave", r, hostId)
    IN /\ Suspended(t)
       /\ tasks' = Resume(tasks, t)
       /\ last' = Reply("createRoom.reply", r, hostId, TRUE, "")
       /\ published' = <<>>
       /\ UNCHANGED <<rooms, usedIds, now, disk, dropped, endedLog, intervals, timeouts, overdue,
                      timerLog, drawLog>>

----------------------------------------------------------------------------
\* joinRoom (socket handler and function)

\* the whole handler: after saveRooms it publishes rooms[roomId] and replies.
\* Nothing but the publication follows the write, so the handler is one step.
JoinRoom(r, p) ==
    LET res == JoinResult(rooms, r, p)
    IN /\ Announced(r)
       /\ rooms' = (IF res.success THEN saveRooms(res.rooms) ELSE res.rooms)
       /\ last' = Reply("joinRoom", r, p, res.success, res.message)
       /\ IF res.success
          THEN /\ published' = << Event("playerJoined", r, p),
                                  Event("gameUpdate", r, Snapshot(rooms', r)) >>
               /\ drawLog' = ResetDrawLog(r, rooms')
          ELSE /\ published' = <<>>
               /\ UNCHANGED drawLog
       /\ UNCHANGED <<usedIds, now, disk, dropped, endedLog, intervals, timeouts, overdue, tasks, timerLog>>

----------------------------------------------------------------------------
\* leaveRoom (socket handler and function)

\* a choice of the last connected player as host
NewHostIdLast(connectedPlayers) == connectedPlayers[Len(connectedPlayers)].id

\* connectedPlayers[0].id
NewHostId(connectedPlayers) == connectedPlayers[1].id

\* a leave that never sees the host go
HostLeavesNever(room, p) == FALSE

\* playerId === rooms[roomId].hostId
HostLeaves(room, p) == p = room.hostId

\* leaveRoom up to its saveRooms: the reply and the store it leaves
LeaveResult(rs, r, p) ==
    IF r \notin DOMAIN rs
    THEN [success |-> FALSE, message |-> "Room not found", rooms |-> rs]
    ELSE LET i == FindIndex(rs[r].players, p)
         IN IF i = 0
            THEN [success |-> FALSE, message |-> "Player not found in room", rooms |-> rs]
            ELSE LET marked == [rs[r].players EXCEPT ![i].isConnected = FALSE]
                     connectedPlayers == ConnectedPlayers(marked)
                 IN [success |-> TRUE, message |-> "",
                     rooms |->
                        IF Len(connectedPlayers) = 0
                        THEN Remove(rs, r)
                        ELSE IF HostLeaves(rs[r], p)
                             THEN [rs EXCEPT ![r].players = marked,
                                             ![r].hostId = NewHostId(connectedPlayers)]
                             ELSE [rs EXCEPT ![r].players = marked]]

\* the events the handler emits after leaveRoom returned
LeaveEvents(rs, r, p) ==
    << Event("playerLeft", r, p) >> \o
    (IF r \in DOMAIN rs THEN << Event("gameUpdate", r, Snapshot(rs, r)) >> ELSE <<>>)

\* the whole handler (see JoinRoom)
LeaveRoom(r, p) ==
    LET res == LeaveResult(rooms, r, p)
    IN /\ Announced(r)
       /\ rooms' = (IF res.success THEN saveRooms(res.rooms) ELSE res.rooms)
       /\ last' = Reply("leaveRoom", r, p, res.success, res.message)
       /\ published' = LeaveEvents(rooms', r, p)
       /\ IF res.success
          THEN drawLog' = ResetDrawLog(r, rooms')
          ELSE UNCHANGED drawLog
       /\ UNCHANGED <<usedIds, now, disk, dropped, endedLog, intervals, timeouts, overdue, tasks, timerLog>>

----------------------------------------------------------------------------
\* sendMessage (socket handler) and addMessage

\* a test that forgets the state of the game
IsHitAnyStatus(room, p, text) ==
    /\ p # room.drawingPlayerId
    /\ TextMatches(text, room.currentWord)

\* a test that lets the drawer guess
IsHitByAnyone(room, p, text) ==
    /\ room.gameStatus = "playing"
    /\ TextMatches(text, room.currentWord)

\* the test of addMessage for a guess that hits the word
IsHit(room, p, text) ==
    /\ room.gameStatus = "playing"
    /\ p # room.drawingPlayerId
    /\ TextMatches(text, room.currentWord)

\* a test that forgets who has guessed
IncludesNothing(arr, x) == FALSE

\* correctGuessers.includes(message.user.id)
Includes(arr, x) == \E i \in 1..Len(arr) : arr[i] = x

\* addMessage on an existing room: the stored message and the room after it
AddMessageResult(room, p, text) ==
    LET hit == IsHit(room, p, text)
        isCorrect == hit /\ ~Includes(room.correctGuessers, p)
        stored == IF isCorrect THEN GuessedMarker
                  ELSE IF hit THEN AlreadyMarker
                  ELSE text
        message == [user |-> p, text |-> stored, isCorrect |-> isCorrect]
        i == FindIndex(room.players, p)
        scored == IF isCorrect /\ i # 0
                  THEN [room.players EXCEPT ![i].score = @ + Award]
                  ELSE room.players
    IN [isCorrect |-> isCorrect,
        message |-> message,
        room |-> [room EXCEPT
                    !.correctGuessers = IF isCorrect THEN Append(@, p) ELSE @,
                    !.players = scored,
                    !.messages = Append(@, message)]]

\* the whole handler (see JoinRoom): newMessage, and gameUpdate after a
\* correct guess
SendMessage(r, p, text) ==
    /\ Announced(r)
    /\ IF r \notin DOMAIN rooms
       THEN \* addMessage fails; the handler still emits newMessage
            /\ last' = [Reply("sendMessage", r, p, FALSE, "Room not found")
                           EXCEPT !.text = text]
            /\ published' = << Event("newMessage", r,
                                     [user |-> p, text |-> text, isCorrect |-> Undefined]) >>
            /\ UNCHANGED <<rooms, usedIds, now, disk, dropped, endedLog, intervals, timeouts, overdue,
                           tasks, timerLog, drawLog>>
       ELSE LET res == AddMessageResult(rooms[r], p, text)
            IN /\ Len(rooms[r].messages) < MaxMessages
               /\ rooms' = saveRooms([rooms EXCEPT ![r] = res.room])
               /\ last' = [Reply("sendMessage", r, p, TRUE, "")
                              EXCEPT !.isCorrect = res.isCorrect, !.text = text]
               /\ published' = << Event("newMessage", r, res.message) >> \o
                               (IF res.isCorrect
                                THEN << Event("gameUpdate", r, Snapshot(rooms', r)) >>
                                ELSE <<>>)
               /\ UNCHANGED <<usedIds, now, disk, dropped, endedLog, intervals, timeouts, overdue,
                              tasks, timerLog, drawLog>>

----------------------------------------------------------------------------
\* startRoundTimer: the interval handles after the call

startRoundTimer(rs, r) ==
    IF r \notin DOMAIN rs \/ rs[r].gameStatus # "playing"
    THEN intervals
    ELSE [intervals EXCEPT ![r] = @ + 1]

\* the model holds at most MaxTimers handles per room id
TimerFits(rs, r) == startRoundTimer(rs, r)[r] <= MaxTimers

----------------------------------------------------------------------------
\* startGame (socket handler and function)

\* a start that keeps the scores of the game before
StartedRoomKeepsScores(room, firstPlayerId, randomWord) ==
    [room EXCEPT
        !.gameStatus = "playing",
        !.currentRound = 1,
        !.currentWord = randomWord,
        !.drawingPlayerId = firstPlayerId,
        !.roundTimeLeft = room.settings.roundDuration,
        !.correctGuessers = <<>>,
        !.players = [i \in 1..Len(room.players) |->
                        [room.players[i] EXCEPT
                            !.isDrawing = (room.players[i].id = firstPlayerId)]]]

\* a start that opens a new log
StartedRoomClearsMessages(room, firstPlayerId, randomWord) ==
    [room EXCEPT
        !.gameStatus = "playing",
        !.currentRound = 1,
        !.currentWord = randomWord,
        !.drawingPlayerId = firstPlayerId,
        !.roundTimeLeft = room.settings.roundDuration,
        !.correctGuessers = <<>>,
        !.messages = <<>>,
        !.players = [i \in 1..Len(room.players) |->
                        [room.players[i] EXCEPT
                            !.isDrawing = (room.players[i].id = firstPlayerId),
                            !.score = 0]]]

\* the room startGame writes for a drawer and a word
StartedRoom(room, firstPlayerId, randomWord) ==
    [room EXCEPT
        !.gameStatus = "playing",
        !.currentRound = 1,
        !.currentWord = randomWord,
        !.drawingPlayerId = firstPlayerId,
        !.roundTimeLeft = room.settings.roundDuration,
        !.correctGuessers = <<>>,
        !.players = [i \in 1..Len(room.players) |->
                        [room.players[i] EXCEPT
                            !.isDrawing = (room.players[i].id = firstPlayerId),
                            !.score = 0]]]

\* a test that lets a lone player start
CanStartAlone(room) == Len(ConnectedPlayers(room.players)) >= 1

\* enough connected players to start
CanStart(room) == Len(ConnectedPlayers(room.players)) >= MinPlayers

\* The handler up to the saveRooms of startGame.  startGame reads nothing
\* before its getWords returns, so the call and the wait for the word file are
\* not a step of their own: the command takes effect when getWords returns.
StartGameWithin(r, cap) ==
    /\ Announced(r)
    /\ published' = <<>>
    /\ UNCHANGED <<usedIds, now, disk, dropped, endedLog, intervals, timeouts, overdue, timerLog>>
    /\ IF r \notin DOMAIN rooms
       THEN /\ last' = Reply("startGame", r, Null, FALSE, "Room not found")
            /\ UNCHANGED <<rooms, tasks, drawLog>>
       ELSE IF ~CanStart(rooms[r])
       THEN /\ last' = Reply("startGame", r, Null, FALSE,
                             "Need at least 2 players to start")
            /\ UNCHANGED <<rooms, tasks, drawLog>>
       ELSE \E k \in 1..Len(ConnectedPlayers(rooms[r].players)), w \in 1..Len(WORDS) :
               /\ BagCardinality(tasks) < cap
               /\ rooms' = saveRooms([rooms EXCEPT ![r] =
                               StartedRoom(rooms[r],
                                           ConnectedPlayers(rooms[r].players)[k].id,
                                           WORDS[w])])
               /\ tasks' = Suspend(tasks, Task("startGame.save", r, Null))
               /\ last' = Reply("startGame.run", r, Null, TRUE, "")
               /\ drawLog' = ResetDrawLog(r, rooms')

StartGame(r) == StartGameWithin(r, MaxInFlight)

\* saveRooms returned: startRoundTimer, then gameStarted and gameUpdate with
\* rooms[roomId] as it is now
StartGameReply(r) ==
    LET t == Task("startGame.save", r, Null)
    IN /\ Suspended(t)
       /\ TimerFits(rooms, r)
       /\ tasks' = Resume(tasks, t)
       /\ intervals' = startRoundTimer(rooms, r)
       /\ published' = << Event("gameStarted", r, Snapshot(rooms, r)),
                          Event("gameUpdate", r, Snapshot(rooms, r)) >>
       /\ last' = Reply("startGame.reply", r, Null, TRUE, "")
       /\ UNCHANGED <<rooms, usedIds, now, disk, dropped, endedLog, timeouts, overdue, timerLog, drawLog>>

----------------------------------------------------------------------------
\* the countdown: one run of the setInterval callback of startRoundTimer

\* a test that stops the timer only when the room is gone
TimerStopsOnlyWhenAbsent(rs, r) == r \notin DOMAIN rs

\* !currentRooms[roomId] || currentRooms[roomId].gameStatus !== 'playing'
TimerStops(rs, r) == r \notin DOMAIN rs \/ rs[r].gameStatus # "playing"

TickWithin(r, cap) ==
    /\ intervals[r] > 0
    /\ UNCHANGED <<usedIds, now, disk, dropped, endedLog, timeouts, drawLog>>
    /\ \E old \in BOOLEAN :
          \* the interval that runs was set before or after the grace delay
          /\ IF old THEN overdue[r] > 0 ELSE intervals[r] > overdue[r]
          /\ overdue' = [overdue EXCEPT ![r] = IF old THEN @ - 1 ELSE @]
    /\ IF TimerStops(rooms, r)
       THEN \* clearInterval, return
            /\ intervals' = [intervals EXCEPT ![r] = @ - 1]
            /\ last' = Reply("tick.stop", r, Null, TRUE, "")
            /\ published' = <<>>
            /\ UNCHANGED <<rooms, tasks, timerLog>>
       ELSE LET left == rooms[r].roundTimeLeft - 1
                ticked == [rooms EXCEPT ![r].roundTimeLeft = left]
            IN \* at the expiry the callback saves after endRound returned
               /\ rooms' = (IF left <= 0 THEN ticked ELSE saveRooms(ticked))
               /\ published' = << Event("timerUpdate", r, left) >>
               /\ timerLog' = [timerLog EXCEPT ![r] = <<left>>]
               /\ IF left <= 0
                  THEN \* clearInterval, endRound up to the readFile of getWords
                       /\ BagCardinality(tasks) < cap
                       /\ intervals' = [intervals EXCEPT ![r] = @ - 1]
                       /\ tasks' = Suspend(tasks, Task("endRound.words", r, Null))
                       /\ last' = Reply("tick.expire", r, Null, TRUE, "")
                  ELSE /\ last' = Reply("tick", r, Null, TRUE, "")
                       /\ UNCHANGED <<intervals, tasks>>

Tick(r) == TickWithin(r, MaxInFlight)

\* endRound after getWords returned, up to its saveRooms
EndRound(r) ==
    LET t == Task("endRound.words", r, Null)
    IN /\ Suspended(t)
       /\ published' = <<>>
       /\ UNCHANGED <<usedIds, now, disk, dropped, intervals, timeouts, overdue, timerLog, drawLog>>
       /\ IF r \notin DOMAIN rooms
          THEN /\ tasks' = Resume(tasks, t)
               /\ last' = Reply("endRound", r, Null, FALSE, "Room not found")
               /\ UNCHANGED <<rooms, endedLog>>
          ELSE IF rooms[r].gameStatus # "playing"
          THEN /\ tasks' = Resume(tasks, t)
               /\ last' = Reply("endRound", r, Null, FALSE, "Game is not in progress")
               /\ UNCHANGED <<rooms, endedLog>>
          ELSE /\ rooms' = saveRooms([rooms EXCEPT ![r].gameStatus = "roundEnd"])
               /\ endedLog' = [endedLog EXCEPT ![r] =
                                 << [round |-> rooms[r].currentRound,
                                     word |-> rooms[r].currentWord] >>]
               /\ tasks' = Suspend(Resume(tasks, t), Task("endRound.save", r, Null))
               /\ last' = Reply("endRound", r, Null, TRUE, "")

\* endRound after saveRooms returned: setTimeout, return to the interval
\* callback, which emits roundEnded and gameUpdate from currentRooms[roomId]
EndRoundReturn(r) ==
    LET t == Task("endRound.save", r, Null)
    IN /\ Suspended(t)
       /\ timeouts[r] < MaxTimeouts
       /\ tasks' = Resume(tasks, t)
       /\ timeouts' = [timeouts EXCEPT ![r] = @ + 1]
       /\ overdue' = [overdue EXCEPT ![r] = intervals[r]]
       /\ IF r \in DOMAIN rooms
          THEN /\ published' = << Event("roundEnded", r,
                                        [round |-> rooms[r].currentRound,
                                         word |-> rooms[r].currentWord]),
                                  Event("gameUpdate", r, Snapshot(rooms, r)) >>
               /\ last' = Reply("tick.roundEnded", r, Null, TRUE, "")
          ELSE \* currentRooms[roomId] is undefined: reading .currentRound throws
               /\ published' = <<>>
               /\ last' = Reply("tick.roundEnded", r, Null, FALSE, "TypeError")
       /\ endedLog' = [endedLog EXCEPT ![r] = <<>>]
       /\ UNCHANGED <<rooms, usedIds, now, disk, dropped, intervals, timerLog, drawLog>>

----------------------------------------------------------------------------
\* the grace delay: the setTimeout callback of endRound

\* the connected player after the drawer, cyclically
NextDrawingId(room) ==
    LET connectedPlayers == ConnectedPlayers(room.players)
        currentDrawingIndex == FindIndex(connectedPlayers, room.drawingPlayerId)
        \* 1-based: ((index - 1) + 1) % length, and (-1 + 1) % length for -1
        nextDrawingIndex == (currentDrawingIndex % Len(connectedPlayers)) + 1
    IN connectedPlayers[nextDrawingIndex].id

\* a next round that starts the scores over
NextRoundRoomResetsScores(room, randomWord) ==
    [StartedRoom(room, NextDrawingId(room), randomWord)
        EXCEPT !.currentRound = room.currentRound + 1]

\* a next round that keeps the guessers of the round before
NextRoundRoomKeepsGuessers(room, randomWord) ==
    [StartedRoom(room, NextDrawingId(room), randomWord)
        EXCEPT !.currentRound = room.currentRound + 1,
               !.correctGuessers = room.correctGuessers,
               !.players = [i \in 1..Len(room.players) |->
                               [room.players[i] EXCEPT
                                   !.isDrawing = (room.players[i].id = NextDrawingId(room))]]]

\* the room the callback writes for the next round
\* a next round that leaves the drawing flags of the round before
NextRoundRoomKeepsFlags(room, randomWord) ==
    [room EXCEPT
        !.gameStatus = "playing",
        !.currentRound = @ + 1,
        !.currentWord = randomWord,
        !.drawingPlayerId = NextDrawingId(room),
        !.roundTimeLeft = room.settings.roundDuration,
        !.correctGuessers = <<>>]

NextRoundRoom(room, randomWord) ==
    LET nextDrawingId == NextDrawingId(room)
    IN [room EXCEPT
          !.gameStatus = "playing",
          !.currentRound = @ + 1,
          !.currentWord = randomWord,
          !.drawingPlayerId = nextDrawingId,
          !.roundTimeLeft = room.settings.roundDuration,
          !.correctGuessers = <<>>,
          !.players = [i \in 1..Len(room.players) |->
                          [room.players[i] EXCEPT
                              !.isDrawing = (room.players[i].id = nextDrawingId)]]]

\* a test that never ends the game
IsLastRoundNever(room) == FALSE

\* a test that lets one round too many be played
IsLastRoundAbove(room) == room.currentRound > room.totalRounds

\* currentRound >= totalRounds
IsLastRound(room) == room.currentRound >= room.totalRounds

\* the callback up to its saveRooms
GraceDelay(r) ==
    /\ timeouts[r] > 0
    /\ overdue[r] = 0
    /\ timeouts' = [timeouts EXCEPT ![r] = @ - 1]
    /\ published' = <<>>
    /\ UNCHANGED <<usedIds, now, disk, dropped, endedLog, intervals, overdue, timerLog>>
    /\ IF r \notin DOMAIN rooms
       THEN /\ last' = Reply("grace", r, Null, FALSE, "Room not found")
            /\ UNCHANGED <<rooms, tasks, drawLog>>
       ELSE /\ CanSuspend
            /\ IF IsLastRound(rooms[r])
               THEN /\ rooms' = saveRooms([rooms EXCEPT ![r].gameStatus = "gameEnd"])
                    /\ tasks' = Suspend(tasks, Task("grace.save", r, "gameEnd"))
                    /\ last' = Reply("grace.gameEnd", r, Null, TRUE, "")
                    /\ UNCHANGED drawLog
               ELSE IF Len(ConnectedPlayers(rooms[r].players)) < MinPlayers
               THEN /\ rooms' = saveRooms([rooms EXCEPT ![r].gameStatus = "waiting"])
                    /\ tasks' = Suspend(tasks, Task("grace.save", r, "waiting"))
                    /\ last' = Reply("grace.waiting", r, Null, TRUE, "")
                    /\ UNCHANGED drawLog
               ELSE \E w \in 1..Len(WORDS) :
                       /\ rooms' = saveRooms([rooms EXCEPT ![r] = NextRoundRoom(rooms[r], WORDS[w])])
                       /\ tasks' = Suspend(tasks, Task("grace.save", r, "nextRound"))
                       /\ last' = Reply("grace.nextRound", r, Null, TRUE, "")
                       /\ drawLog' = [drawLog EXCEPT
                                        ![r] = Append(@, rooms'[r].drawingPlayerId)]

\* saveRooms returned: gameUpdate, and startRoundTimer for a next round
GraceDelayReturn(r, branch) ==
    LET t == Task("grace.save", r, branch)
    IN /\ Suspended(t)
       /\ tasks' = Resume(tasks, t)
       /\ published' = << Event("gameUpdate", r, Snapshot(rooms, r)) >>
       /\ IF branch = "nextRound"
          THEN /\ TimerFits(rooms, r)
               /\ intervals' = startRoundTimer(rooms, r)
          ELSE UNCHANGED intervals
       /\ last' = Reply("grace.return", r, Null, TRUE, branch)
       /\ UNCHANGED <<rooms, usedIds, now, disk, dropped, endedLog, timeouts, overdue, timerLog, drawLog>>

----------------------------------------------------------------------------
\* cleanupRooms: the sweep of the Reaper (every 15 minutes, at every socket
\* disconnect).  A sweep that finds nothing to remove leaves the store alone.

\* a ceiling that also removes a room at exactly the longest life
TooOldAtCeiling(room) == now - room.createdAt >= MaxAgeHours

\* hoursSinceCreation > 6
TooOld(room) == now - room.createdAt > MaxAgeHours

\* a loop that only deletes the rooms nobody is connected to
RemovableOnlyEmpty(room) == Len(ConnectedPlayers(room.players)) = 0

\* the rooms the loop of cleanupRooms deletes
Removable(room) ==
    IF Len(ConnectedPlayers(room.players)) = 0 THEN TRUE ELSE TooOld(room)

Swept(rs) == [x \in {y \in DOMAIN rs : ~Removable(rs[y])} |-> rs[x]]

\* the line the loop logs: a room removed for its age, or only empty rooms
SweepLog(rs) ==
    IF \E r \in DOMAIN rs \ DOMAIN Swept(rs) : Len(ConnectedPlayers(rs[r].players)) > 0
    THEN "stale"
    ELSE IF Swept(rs) # rs THEN "empty" ELSE ""

CleanupRooms ==
    /\ rooms' = (IF Swept(rooms) # rooms THEN saveRooms(Swept(rooms)) ELSE rooms)
    /\ last' = Reply("cleanupRooms", Null, Null, TRUE, SweepLog(rooms))
    /\ published' = <<>>
    /\ drawLog' = [r \in RoomIds |-> IF r \in DOMAIN rooms' THEN drawLog[r] ELSE <<>>]
    /\ UNCHANGED <<usedIds, now, disk, dropped, endedLog, intervals, timeouts, overdue, tasks, timerLog>>

\* socket.on('disconnect') of the client of player p: cleanupRooms
Disconnect(p) ==
    /\ p \notin dropped
    /\ dropped' = dropped \cup {p}
    /\ rooms' = (IF Swept(rooms) # rooms THEN saveRooms(Swept(rooms)) ELSE rooms)
    /\ last' = Reply("disconnect", Null, p, TRUE, SweepLog(rooms))
    /\ published' = <<>>
    /\ drawLog' = [r \in RoomIds |-> IF r \in DOMAIN rooms' THEN drawLog[r] ELSE <<>>]
    /\ UNCHANGED <<usedIds, now, disk, endedLog, intervals, timeouts, overdue, tasks, timerLog>>

\* time passes: the clock moves on by the longest life of a room
Later ==
    /\ now + MaxAgeHours <= MaxNow
    /\ now' = now + MaxAgeHours
    /\ last' = NoReply
    /\ published' = <<>>
    /\ UNCHANGED <<rooms, usedIds, disk, dropped, endedLog, intervals, timeouts, overdue, tasks,
                   timerLog, drawLog>>

\* the file system starts or stops refusing the writes to rooms.json
DiskChanges ==
    /\ disk' = (IF disk = "ok" THEN "failing" ELSE "ok")
    /\ last' = NoReply
    /\ published' = <<>>
    /\ UNCHANGED <<rooms, usedIds, now, dropped, intervals, timeouts, overdue, tasks,
                   timerLog, drawLog, endedLog>>

----------------------------------------------------------------------------
\* the continuations and the timers: the steps no client sends
Background ==
    \/ \E r \in RoomIds, h \in HostIds : CreateRoomJoin(r, h)
    \/ \E r \in RoomIds, h \in HostIds : CreateRoomReply(r, h)
    \/ \E r \in RoomIds : StartGameReply(r)
    \/ \E r \in RoomIds : Tick(r)
    \/ \E r \in RoomIds : EndRound(r)
    \/ \E r \in RoomIds : EndRoundReturn(r)
    \/ \E r \in RoomIds : GraceDelay(r)
    \/ \E r \in RoomIds, b \in {"gameEnd", "waiting", "nextRound"} : GraceDelayReturn(r, b)
    \/ CleanupRooms

\* startGame may be sent for any room at any time
Engine ==
    \/ \E r \in RoomIds : StartGame(r)
    \/ Background

\* two clients, with chat
Next ==
    \/ \E r \in RoomIds, h \in HostIds, s \in SettingsChoices : CreateRoom(r, h, s)
    \/ \E r \in RoomIds, p \in PlayerIds : JoinRoom(r, p)
    \/ \E r \in RoomIds, p \in PlayerIds : LeaveRoom(r, p)
    \/ \E r \in RoomIds, p \in PlayerIds, x \in Texts : SendMessage(r, p, x)
    \/ Engine

Spec == Init /\ [][Next]_vars

\* three clients and three rounds, without chat: the rotation of the drawer
NextRotation ==
    \/ \E r \in RoomIds, h \in HostIds, s \in RotationSettings : CreateRoom(r, h, s)
    \/ \E r \in RoomIds, p \in RotationPlayers : JoinRoom(r, p)
    \/ \E r \in RoomIds, p \in RotationPlayers : LeaveRoom(r, p)
    \/ Engine

SpecRotation == Init /\ [][NextRotation]_vars

\* three clients for a room of two, with chat
NextCrowd ==
    \/ \E r \in RoomIds, h \in HostIds, s \in CrowdSettings : CreateRoom(r, h, s)
    \/ \E r \in RoomIds, p \in CrowdPlayers : JoinRoom(r, p)
    \/ \E r \in RoomIds, p \in CrowdPlayers : LeaveRoom(r, p)
    \/ \E r \in RoomIds, p \in CrowdPlayers, x \in Texts : SendMessage(r, p, x)
    \/ Engine

SpecCrowd == Init /\ [][NextCrowd]_vars

\* One game from the lobby: two clients join a room of one round, startGame
\* is sent for a waiting room only, nobody leaves.  Continuations resume when
\* their I/O returns and timers run when they are due.
NextScenario ==
    \/ \E r \in RoomIds, h \in HostIds, s \in ScenarioSettings : CreateRoom(r, h, s)
    \/ \E r \in RoomIds, p \in PlayerIds : JoinRoom(r, p)
    \/ \E r \in RoomIds, p \in PlayerIds, x \in Texts : SendMessage(r, p, x)
    \/ \E r \in RoomIds :
          /\ r \in DOMAIN rooms
          /\ rooms[r].gameStatus = "waiting"
          /\ StartGame(r)
    \/ Background

SpecScenario ==
    /\ Init
    /\ [][NextScenario]_vars
    /\ \A r \in RoomIds :
          /\ WF_vars(StartGameReply(r))
          /\ WF_vars(Tick(r))
          /\ WF_vars(EndRound(r))
          /\ WF_vars(EndRoundReturn(r))
          /\ WF_vars(GraceDelay(r))
          /\ \A b \in {"gameEnd", "waiting", "nextRound"} : WF_vars(GraceDelayReturn(r, b))

\* two clients who stay, one setting, and a chat of guesses and small talk
NextChat ==
    \/ \E r \in RoomIds, h \in HostIds, s \in ScenarioSettings : CreateRoom(r, h, s)
    \/ \E r \in RoomIds, p \in PlayerIds : JoinRoom(r, p)
    \/ \E r \in RoomIds, p \in PlayerIds, x \in ChatTexts : SendMessage(r, p, x)
    \/ Engine

SpecChat == Init /\ [][NextChat]_vars

\* two clients and one setting on a disk whose writes may fail
NextMirror ==
    \/ \E r \in RoomIds, h \in HostIds, s \in ScenarioSettings : CreateRoom(r, h, s)
    \/ \E r \in RoomIds, p \in PlayerIds : JoinRoom(r, p)
    \/ \E r \in RoomIds, p \in PlayerIds : LeaveRoom(r, p)
    \/ \E r \in RoomIds, p \in PlayerIds, x \in Texts : SendMessage(r, p, x)
    \/ DiskChanges
    \/ Engine

SpecMirror == Init /\ [][NextMirror]_vars

\* two clients who stay, one round, no chat: startGame may arrive while
\* another handler waits for its write
NextRace ==
    \/ \E r \in RoomIds, h \in HostIds, s \in ScenarioSettings : CreateRoom(r, h, s)
    \/ \E r \in RoomIds, p \in PlayerIds : JoinRoom(r, p)
    \/ \E r \in RoomIds : StartGameWithin(r, MaxInFlightRace)
    \/ \E r \in RoomIds : TickWithin(r, MaxInFlightRace)
    \/ Background

SpecRace == Init /\ [][NextRace]_vars

\* two clients whose sockets may drop; a client whose socket has dropped
\* sends nothing more
NextDrop ==
    \/ \E r \in RoomIds, h \in HostIds, s \in ScenarioSettings :
          h \notin dropped /\ CreateRoom(r, h, s)
    \/ \E r \in RoomIds, p \in PlayerIds : p \notin dropped /\ JoinRoom(r, p)
    \/ \E r \in RoomIds, p \in PlayerIds : p \notin dropped /\ LeaveRoom(r, p)
    \/ \E p \in PlayerIds : Disconnect(p)
    \/ Engine

SpecDrop == Init /\ [][NextDrop]_vars

\* two clients, without chat, over hours: the sweep of the Reaper
NextReaper ==
    \/ \E r \in RoomIds, h \in HostIds, s \in ReaperSettings : CreateRoom(r, h, s)
    \/ \E r \in RoomIds, p \in PlayerIds : JoinRoom(r, p)
    \/ \E r \in RoomIds, p \in PlayerIds : LeaveRoom(r, p)
    \/ Later
    \/ Engine

SpecReaper == Init /\ [][NextReaper]_vars

----------------------------------------------------------------------------
\* Properties

Status(r) == rooms[r].gameStatus
Connected(r) == ConnectedPlayers(rooms[r].players)
Drawing(r) == {i \in 1..Len(rooms[r].players) : rooms[r].players[i].isDrawing}
Player(r, p) == rooms[r].players[FindIndex(rooms[r].players, p)]

\* C1: in every reachable state every room id has at most one live countdown
\* interval.
C1_AtMostOneTimer == \A r \in RoomIds : intervals[r] <= 1

\* C2: while a room is playing at most one player has isDrawing = true, and
\* that player is connected.
C2_OneConnectedDrawer ==
    \A r \in DOMAIN rooms :
        Status(r) = "playing" =>
            /\ Cardinality(Drawing(r)) <= 1
            /\ \A i \in Drawing(r) : rooms[r].players[i].isConnected

\* an event that carries the word w
Carries(e, w) ==
    \/ /\ e.type \in {"gameStarted", "gameUpdate"}
       /\ e.payload # <<>>
       /\ e.payload[1].currentWord = w
    \/ /\ e.type = "newMessage"
       /\ e.payload.text = w

\* C3: no event published to a room that is playing, other than roundEnded,
\* carries the room's current word.
C3_WordOnlyInRoundEnded ==
    \A i \in 1..Len(published) :
        LET e == published[i]
        IN (/\ e.room \in DOMAIN rooms
            /\ Status(e.room) = "playing"
            /\ e.type # "roundEnded")
           => ~Carries(e, rooms[e.room].currentWord)

\* upper-case and lower-case forms of one letter
CasePairs == { <<"C", "c">>, <<"A", "a">>, <<"T", "t">>,
               <<"D", "d">>, <<"O", "o">>, <<"G", "g">> }
SameLetter(a, b) == a = b \/ <<a, b>> \in CasePairs \/ <<b, a>> \in CasePairs

\* the text x is the word w up to the case of its letters and to blanks
\* around it
EqualsIgnoringCaseAndMargins(x, w) ==
    \E a \in 0..Len(x) :
        LET b == Len(x) - Len(w) - a
        IN /\ b >= 0
           /\ \A k \in 1..a : x[k] = " "
           /\ \A k \in (a + Len(w) + 1)..Len(x) : x[k] = " "
           /\ \A k \in 1..Len(w) : SameLetter(x[a + k], w[k])

\* the step is the sendMessage of player p with text x to room r
IsSendMessage(r, p, x) ==
    /\ last'.op = "sendMessage"
    /\ last'.room = r
    /\ last'.player = p
    /\ last'.text = x

\* a guess of the word by a player of the room who is not drawing
GuessOfWord(r, p, x) ==
    /\ r \in DOMAIN rooms
    /\ Status(r) = "playing"
    /\ p \in Ids(rooms[r].players)
    /\ p # rooms[r].drawingPlayerId
    /\ ~Player(r, p).isDrawing
    /\ EqualsIgnoringCaseAndMargins(x, rooms[r].currentWord)

LastMessage(room) == room.messages[Len(room.messages)]

\* C4: a guess of the word (up to case and surrounding blanks) by a
\* non-drawing player who has not scored this round adds exactly 100 to that
\* player's score and to nobody else's, appends the player to correctGuessers,
\* replies isCorrect, and stores the correctness marker, not the word.
C4_CorrectGuessScores ==
    [][\A r \in RoomIds, p \in PlayerIds, x \in Texts :
          (/\ IsSendMessage(r, p, x)
           /\ GuessOfWord(r, p, x)
           /\ p \notin Range(rooms[r].correctGuessers))
          => /\ r \in DOMAIN rooms'
             /\ Len(rooms'[r].players) = Len(rooms[r].players)
             /\ \A i \in 1..Len(rooms[r].players) :
                   rooms'[r].players[i].score =
                       rooms[r].players[i].score
                         + (IF rooms[r].players[i].id = p THEN 100 ELSE 0)
             /\ rooms'[r].correctGuessers = Append(rooms[r].correctGuessers, p)
             /\ last'.isCorrect
             /\ Len(rooms'[r].messages) = Len(rooms[r].messages) + 1
             /\ LastMessage(rooms'[r]).user = p
             /\ LastMessage(rooms'[r]).isCorrect
             /\ LastMessage(rooms'[r]).text = GuessedMarker
             /\ ~EqualsIgnoringCaseAndMargins(LastMessage(rooms'[r]).text,
                                              rooms[r].currentWord)
      ]_vars

\* a correct guess spelled with capitals and blanks has just scored
C4_Witness ==
    /\ last.op = "sendMessage"
    /\ last.isCorrect
    /\ last.room \in DOMAIN rooms
    /\ last.text # rooms[last.room].currentWord
    /\ Player(last.room, last.player).score = 100
    /\ LastMessage(rooms[last.room]).text = GuessedMarker

\* C5: a second guess of the word by a player who already scored this round
\* changes no score and not correctGuessers, replies isCorrect = false and
\* stores the "already guessed" marker.
C5_SecondGuessNoScore ==
    [][\A r \in RoomIds, p \in PlayerIds, x \in Texts :
          (/\ IsSendMessage(r, p, x)
           /\ GuessOfWord(r, p, x)
           /\ p \in Range(rooms[r].correctGuessers))
          => /\ r \in DOMAIN rooms'
             /\ rooms'[r].players = rooms[r].players
             /\ rooms'[r].correctGuessers = rooms[r].correctGuessers
             /\ ~last'.isCorrect
             /\ Len(rooms'[r].messages) = Len(rooms[r].messages) + 1
             /\ ~LastMessage(rooms'[r]).isCorrect
             /\ LastMessage(rooms'[r]).text = AlreadyMarker
      ]_vars

\* the same player has guessed the word twice in one round
C5_Witness ==
    /\ last.op = "sendMessage"
    /\ last.room \in DOMAIN rooms
    /\ Len(rooms[last.room].messages) = 2
    /\ rooms[last.room].messages[1].user = last.player
    /\ rooms[last.room].messages[1].text = GuessedMarker
    /\ rooms[last.room].messages[2].user = last.player
    /\ rooms[last.room].messages[2].text = AlreadyMarker
    /\ Player(last.room, last.player).score = 100

\* the step is a startGame on room r
IsStartGame(r) ==
    /\ last'.op \in {"startGame", "startGame.run"}
    /\ last'.room = r

\* C6: startGame on a room with fewer than 2 connected players fails with
\* the insufficient-players message, leaves the room as it was, starts no
\* timer and leaves nothing behind that could start one.
C6_StartNeedsTwoPlayers ==
    [][\A r \in RoomIds :
          (/\ IsStartGame(r)
           /\ r \in DOMAIN rooms
           /\ Cardinality({i \in 1..Len(rooms[r].players) :
                              rooms[r].players[i].isConnected}) < 2)
          => /\ ~last'.success
             /\ last'.message = "Need at least 2 players to start"
             /\ rooms' = rooms
             /\ intervals' = intervals
             /\ timeouts' = timeouts
             /\ tasks' = tasks
      ]_vars

\* startGame has just been refused on a room whose only other player left
C6_Witness ==
    /\ last.op = "startGame"
    /\ ~last.success
    /\ last.message = "Need at least 2 players to start"
    /\ last.room \in DOMAIN rooms
    /\ Len(rooms[last.room].players) = 2
    /\ Len(Connected(last.room)) = 1

GraceOps == {"grace.gameEnd", "grace.waiting", "grace.nextRound"}

\* C7: playing is left only to roundEnd, by endRound; roundEnd is left only
\* by the grace-delay callback, to playing, gameEnd or waiting; and the
\* callback changes nothing of a room that is not in roundEnd.
C7_StatusMachine ==
    [][\A r \in (DOMAIN rooms) \cap (DOMAIN rooms') :
          /\ (Status(r) = "playing" /\ rooms'[r].gameStatus # "playing")
                => (rooms'[r].gameStatus = "roundEnd" /\ last'.op = "endRound")
          /\ (Status(r) = "roundEnd" /\ rooms'[r].gameStatus # "roundEnd")
                => (/\ last'.op \in GraceOps
                    /\ rooms'[r].gameStatus \in {"playing", "gameEnd", "waiting"})
          /\ (last'.op \in GraceOps /\ last'.room = r /\ Status(r) # "roundEnd")
                => (/\ rooms'[r].gameStatus = Status(r)
                    /\ rooms'[r].currentRound = rooms[r].currentRound
                    /\ rooms'[r].currentWord = rooms[r].currentWord
                    /\ rooms'[r].drawingPlayerId = rooms[r].drawingPlayerId)
      ]_vars

\* C8: the grace-delay callback after the last round sets gameEnd, and a
\* room in gameEnd has no live timer.
C8_GameEndNoTimer ==
    [][\A r \in DOMAIN rooms' :
          /\ (/\ r \in DOMAIN rooms
              /\ last'.op \in GraceOps /\ last'.room = r
              /\ Status(r) = "roundEnd"
              /\ rooms[r].currentRound >= rooms[r].settings.rounds)
                => rooms'[r].gameStatus = "gameEnd"
          /\ rooms'[r].gameStatus = "gameEnd" => intervals'[r] = 0
      ]_vars

\* C9: with N connected players and no join or leave, after N round-ends in
\* a row the drawer is the original one again and every connected player has
\* drawn once.
C9_RotationIsCyclic ==
    \A r \in DOMAIN rooms :
        LET N == Len(Connected(r))
            log == drawLog[r]
        IN Len(log) >= N + 1 =>
              /\ log[N + 1] = log[1]
              /\ {log[i] : i \in 1..N} = Ids(Connected(r))

\* C10: the timerUpdate values of a room go down by one from one tick to
\* the next until 0, never below 0, and none is published for a room that is
\* not playing.
C10_TicksCountDown ==
    [][\A i \in 1..Len(published') :
          LET e == published'[i]
          IN e.type = "timerUpdate" =>
                /\ e.payload >= 0
                /\ (timerLog[e.room] # <<>> /\ timerLog[e.room][1] # 0)
                        => e.payload = timerLog[e.room][1] - 1
                /\ e.room \in DOMAIN rooms'
                /\ rooms'[e.room].gameStatus = "playing"
      ]_vars

\* the step is a sweep of the Reaper
IsSweep == last'.op = "cleanupRooms"

IsCommand(op, r, p) == last'.op = op /\ last'.room = r /\ last'.player = p

\* the command was refused: the caller is told why and no room has changed
Refused == ~last'.success /\ last'.message # "" /\ rooms' = rooms

\* C12: joinRoom on an absent or full room, leaveRoom on an absent room or
\* by an unknown player, startGame on an absent room or with fewer than 2
\* connected players and sendMessage on an absent room report the failure
\* to the caller and leave every room as it was; and no failed command
\* changes a room.
C12_FailedCommandChangesNothing ==
    [][\A r \in RoomIds :
          /\ \A p \in CrowdPlayers :
                /\ (/\ IsCommand("joinRoom", r, p)
                    /\ \/ r \notin DOMAIN rooms
                       \/ /\ p \notin Ids(rooms[r].players)
                          /\ Len(rooms[r].players) >= rooms[r].settings.maxPlayers)
                      => Refused
                /\ (/\ IsCommand("leaveRoom", r, p)
                    /\ \/ r \notin DOMAIN rooms
                       \/ p \notin Ids(rooms[r].players))
                      => Refused
                /\ (IsCommand("sendMessage", r, p) /\ r \notin DOMAIN rooms)
                      => Refused
          /\ (/\ IsStartGame(r)
              /\ \/ r \notin DOMAIN rooms
                 \/ Cardinality({i \in 1..Len(rooms[r].players) :
                                    rooms[r].players[i].isConnected}) < 2)
                => Refused
          /\ (/\ last'.op \in {"joinRoom", "leaveRoom", "sendMessage", "startGame"}
              /\ last' # last
              /\ ~last'.success)
                => rooms' = rooms
      ]_vars

\* a third client has just been refused by a room of two
C12_Witness ==
    /\ last.op = "joinRoom"
    /\ ~last.success
    /\ last.message = "Room is full"
    /\ last.room \in DOMAIN rooms
    /\ Len(rooms[last.room].players) = 2
    /\ last.player \notin Ids(rooms[last.room].players)

\* roundEnded has just been published for room r with the word w
RoundEndedWith(r, w) ==
    \E i \in 1..Len(published) :
        /\ published[i].type = "roundEnded"
        /\ published[i].room = r
        /\ published[i].payload.word = w

\* C13: in a room of two with one round, startGame leaves exactly one player
\* drawing, a non-empty word and roundTimeLeft = roundDuration; a correct
\* guess of the other player gives that player score 100; with timers and
\* continuations scheduled fairly roundEnded is eventually published with
\* the word of the round, and after it the room eventually is in gameEnd.
C13_OneRoundGame ==
    /\ [][\A r \in RoomIds :
            /\ (last'.op = "startGame.run" /\ last'.room = r)
                  => /\ Cardinality({i \in 1..Len(rooms'[r].players) :
                                        rooms'[r].players[i].isDrawing}) = 1
                     /\ rooms'[r].currentWord # <<>>
                     /\ rooms'[r].roundTimeLeft = rooms'[r].settings.roundDuration
            /\ \A p \in PlayerIds, x \in Texts :
                  (/\ IsSendMessage(r, p, x)
                   /\ GuessOfWord(r, p, x)
                   /\ p \notin Range(rooms[r].correctGuessers))
                  => /\ FindIndex(rooms'[r].players, p) # 0
                     /\ rooms'[r].players[FindIndex(rooms'[r].players, p)].score = 100
        ]_vars
    /\ \A r \in RoomIds, w \in Range(WORDS) :
          (r \in DOMAIN rooms /\ Status(r) = "playing" /\ rooms[r].currentWord = w)
             ~> RoundEndedWith(r, w)
    /\ \A r \in RoomIds, w \in Range(WORDS) :
          RoundEndedWith(r, w) ~> (r \in DOMAIN rooms /\ Status(r) = "gameEnd")

\* the game of one round is over and the guesser has 100
C13_Witness ==
    \E r \in DOMAIN rooms :
        /\ Status(r) = "gameEnd"
        /\ rooms[r].currentRound = 1
        /\ \E i \in 1..Len(rooms[r].players) :
              /\ rooms[r].players[i].score = 100
              /\ ~rooms[r].players[i].isDrawing

\* C14: joinRoom by an id that is not in the room fails with "Room is full"
\* when players.length >= settings.maxPlayers and otherwise appends the
\* player with score 0, isDrawing false, isConnected true; and no room ever
\* has more players than settings.maxPlayers.
C14_JoinRespectsMaxPlayers ==
    /\ [](\A r \in DOMAIN rooms :
             Len(rooms[r].players) <= rooms[r].settings.maxPlayers)
    /\ [][\A r \in RoomIds, p \in CrowdPlayers :
            (/\ IsCommand("joinRoom", r, p)
             /\ r \in DOMAIN rooms
             /\ p \notin Ids(rooms[r].players))
            => IF Len(rooms[r].players) >= rooms[r].settings.maxPlayers
               THEN /\ ~last'.success
                    /\ last'.message = "Room is full"
                    /\ rooms' = rooms
               ELSE /\ last'.success
                    /\ r \in DOMAIN rooms'
                    /\ rooms'[r].players =
                          Append(rooms[r].players,
                                 [id |-> p, score |-> 0, isDrawing |-> FALSE,
                                  isConnected |-> TRUE])
                    /\ rooms'[r] = [rooms[r] EXCEPT !.players = rooms'[r].players]
        ]_vars

\* the third client has just joined as the last player the room takes
C14_Witness ==
    /\ last.op = "joinRoom"
    /\ last.success
    /\ last.player = "p3"
    /\ last.room \in DOMAIN rooms
    /\ Status(last.room) = "waiting"
    /\ Len(rooms[last.room].players) = rooms[last.room].settings.maxPlayers
    /\ LET n == Len(rooms[last.room].players)
       IN rooms[last.room].players[n] =
             [id |-> last.player, score |-> 0, isDrawing |-> FALSE, isConnected |-> TRUE]

\* C15: joinRoom by an id that is already in the room adds no entry: it
\* marks that player connected and keeps the player's score, isDrawing flag
\* and place in the join order, and the rest of the room; and players never
\* holds an id twice.
C15_RejoinKeepsPlayer ==
    /\ [](\A r \in DOMAIN rooms :
             \A i, j \in 1..Len(rooms[r].players) :
                rooms[r].players[i].id = rooms[r].players[j].id => i = j)
    /\ [][\A r \in RoomIds, p \in PlayerIds :
            (/\ IsCommand("joinRoom", r, p)
             /\ r \in DOMAIN rooms
             /\ p \in Ids(rooms[r].players))
            => /\ last'.success
               /\ r \in DOMAIN rooms'
               /\ Len(rooms'[r].players) = Len(rooms[r].players)
               /\ \A i \in 1..Len(rooms[r].players) :
                     IF rooms[r].players[i].id = p
                     THEN /\ rooms'[r].players[i].id = p
                          /\ rooms'[r].players[i].isConnected
                          /\ rooms'[r].players[i].score = rooms[r].players[i].score
                          /\ rooms'[r].players[i].isDrawing = rooms[r].players[i].isDrawing
                     ELSE rooms'[r].players[i] = rooms[r].players[i]
               /\ rooms'[r] = [rooms[r] EXCEPT !.players = rooms'[r].players]
        ]_vars

\* a player who had scored and left is back in the room with the score
C15_Witness ==
    /\ last.op = "joinRoom"
    /\ last.success
    /\ last.room \in DOMAIN rooms
    /\ Len(rooms[last.room].players) = 2
    /\ Player(last.room, last.player).score = 100
    /\ Player(last.room, last.player).isConnected
    /\ \E i \in 1..Len(published) :
          /\ published[i].type = "gameUpdate"
          /\ published[i].payload # <<>>
          /\ published[i].payload[1].players = rooms[last.room].players

\* the places in players of the connected players other than p
OthersConnected(room, p) ==
    {i \in 1..Len(room.players) : room.players[i].isConnected /\ room.players[i].id # p}

\* C16: leaveRoom of a player of the room marks that player disconnected and
\* removes nobody; the room is deleted when no player remains connected;
\* when the host leaves and others remain connected, hostId becomes the first
\* of them in join order; when another player leaves, hostId stays.
C16_LeaveMarksAndTransfersHost ==
    [][\A r \in RoomIds, p \in RotationPlayers :
          (/\ IsCommand("leaveRoom", r, p)
           /\ r \in DOMAIN rooms
           /\ p \in Ids(rooms[r].players))
          => LET others == OthersConnected(rooms[r], p)
                 first == CHOOSE i \in others : \A j \in others : i <= j
             IN /\ last'.success
                /\ IF others = {}
                   THEN r \notin DOMAIN rooms'
                   ELSE /\ r \in DOMAIN rooms'
                        /\ Len(rooms'[r].players) = Len(rooms[r].players)
                        /\ \A i \in 1..Len(rooms[r].players) :
                              rooms'[r].players[i] =
                                 IF rooms[r].players[i].id = p
                                 THEN [rooms[r].players[i] EXCEPT !.isConnected = FALSE]
                                 ELSE rooms[r].players[i]
                        /\ rooms'[r].hostId =
                              IF p = rooms[r].hostId
                              THEN rooms[r].players[first].id
                              ELSE rooms[r].hostId
                        /\ rooms'[r] = [rooms[r] EXCEPT
                                           !.players = rooms'[r].players,
                                           !.hostId = rooms'[r].hostId]
      ]_vars

\* the host has just left a room of three whose second player had left
\* before: the third player is the host
C16_Witness ==
    /\ last.op = "leaveRoom"
    /\ last.success
    /\ last.player = "p1"
    /\ last.room \in DOMAIN rooms
    /\ Len(rooms[last.room].players) = 3
    /\ rooms[last.room].players[1].id = "p1"
    /\ ~rooms[last.room].players[1].isConnected
    /\ ~rooms[last.room].players[2].isConnected
    /\ rooms[last.room].players[3].isConnected
    /\ rooms[last.room].hostId = rooms[last.room].players[3].id

\* C17: in every room, whatever its status, drawingPlayerId, if set, is the
\* id of a player of the room who is connected.
C17_DrawerIsConnected ==
    \A r \in DOMAIN rooms :
        rooms[r].drawingPlayerId # Null =>
            \E i \in 1..Len(rooms[r].players) :
                /\ rooms[r].players[i].id = rooms[r].drawingPlayerId
                /\ rooms[r].players[i].isConnected

\* C18: in every room every id in correctGuessers is the id of a player of
\* the room who is connected and is not the drawer.
C18_GuessersAreConnectedPlayers ==
    \A r \in DOMAIN rooms :
        \A g \in Range(rooms[r].correctGuessers) :
            /\ g # rooms[r].drawingPlayerId
            /\ \E i \in 1..Len(rooms[r].players) :
                  /\ rooms[r].players[i].id = g
                  /\ rooms[r].players[i].isConnected
                  /\ ~rooms[r].players[i].isDrawing

\* C19: no message appended to the log of a room that is playing has a text
\* that is the current word up to case and surrounding blanks, whoever sent
\* it.
C19_LogHidesWord ==
    [][\A r \in RoomIds, p \in PlayerIds, x \in Texts :
          (/\ IsSendMessage(r, p, x)
           /\ r \in DOMAIN rooms
           /\ Status(r) = "playing"
           /\ r \in DOMAIN rooms'
           /\ Len(rooms'[r].messages) > Len(rooms[r].messages))
          => ~EqualsIgnoringCaseAndMargins(LastMessage(rooms'[r]).text,
                                           rooms[r].currentWord)
      ]_vars

\* C20: currentRound is 0 in a new room and stays 0 until a game starts; it
\* changes only when startGame sets 1 and when the grace-delay callback
\* starts the next round, which adds exactly 1; and it never exceeds
\* settings.rounds.
C20_RoundCounter ==
    /\ [](\A r \in DOMAIN rooms : rooms[r].currentRound <= rooms[r].settings.rounds)
    /\ [][\A r \in DOMAIN rooms' :
            IF r \notin DOMAIN rooms
            THEN rooms'[r].currentRound = 0
            ELSE /\ rooms'[r].currentRound # rooms[r].currentRound
                      => \/ /\ last'.op = "startGame.run"
                            /\ rooms'[r].currentRound = 1
                         \/ /\ last'.op = "grace.nextRound"
                            /\ rooms'[r].currentRound = rooms[r].currentRound + 1
                 /\ (last'.op = "grace.nextRound" /\ last'.room = r)
                      => rooms'[r].currentRound = rooms[r].currentRound + 1
        ]_vars

\* the second and last round of a game is being played
C20_Witness ==
    \E r \in DOMAIN rooms :
        /\ Status(r) = "playing"
        /\ rooms[r].currentRound = 2
        /\ rooms[r].settings.rounds = 2
        /\ last.op = "grace.nextRound"

\* C21: the current word of a room is empty whenever no round is active:
\* in a room that is waiting or in gameEnd currentWord is the empty string.
C21_NoWordOutsideRound ==
    \A r \in DOMAIN rooms :
        Status(r) \in {"waiting", "gameEnd"} => rooms[r].currentWord = <<>>

\* a gameUpdate with the room r as it is after the step is published
UpdatePublished(r) ==
    \E i \in 1..Len(published') :
        /\ published'[i].type = "gameUpdate"
        /\ published'[i].room = r
        /\ published'[i].payload = <<rooms'[r]>>

\* C22: every joinRoom, leaveRoom and sendMessage that changes a room which
\* is in the store afterwards publishes a gameUpdate with the room as it is
\* after the change; so do the continuations of startGame, of the round end
\* and of the grace-delay callback for the change they complete.
C22_UpdateAfterMutation ==
    [][\A r \in (DOMAIN rooms) \cap (DOMAIN rooms') :
          /\ (/\ last'.op \in {"joinRoom", "leaveRoom", "sendMessage"}
              /\ last'.room = r
              /\ rooms'[r] # rooms[r])
                => UpdatePublished(r)
          /\ (/\ last'.op \in {"startGame.reply", "tick.roundEnded", "grace.return"}
              /\ last'.room = r
              /\ last'.success)
                => UpdatePublished(r)
      ]_vars

\* C23: every score is a non-negative integer, and no step other than a
\* startGame lowers the score of a player: a guess, a join, a rejoin, a
\* leave, a tick and a round transition keep or raise every score.
C23_ScoresNeverFall ==
    /\ [](\A r \in DOMAIN rooms :
             \A i \in 1..Len(rooms[r].players) : rooms[r].players[i].score \in Nat)
    /\ [][\A r \in (DOMAIN rooms) \cap (DOMAIN rooms') :
            last'.op # "startGame.run"
            => /\ Len(rooms'[r].players) >= Len(rooms[r].players)
               /\ \A i \in 1..Len(rooms[r].players) :
                     /\ rooms'[r].players[i].id = rooms[r].players[i].id
                     /\ rooms'[r].players[i].score >= rooms[r].players[i].score
        ]_vars

\* a player who scored in the first round, left and came back has the score
\* in the second round
C23_Witness ==
    /\ last.op = "joinRoom"
    /\ last.success
    /\ last.room \in DOMAIN rooms
    /\ rooms[last.room].currentRound = 2
    /\ Status(last.room) = "playing"
    /\ rooms[last.room].correctGuessers = <<>>
    /\ Player(last.room, last.player).score = 100

\* the grace-delay callback has just run for room r, up to its write
IsGrace(r) == last'.op \in GraceOps \cup {"grace"} /\ last'.room = r

\* C24: when the grace delay elapses for a room in the store, the room goes
\* to gameEnd if currentRound >= settings.rounds; otherwise, with fewer than
\* 2 connected players, to waiting, and no timer is started; otherwise
\* currentRound goes up by 1, roundTimeLeft is roundDuration again,
\* correctGuessers is empty, the room is playing and, once the write is
\* done, a timer is started for the room that is still playing.  For a room
\* that is not in the store the callback does nothing.
C24_GraceDelayOutcome ==
    [][\A r \in RoomIds :
          /\ (IsGrace(r) /\ r \notin DOMAIN rooms)
                => /\ rooms' = rooms
                   /\ tasks' = tasks
                   /\ intervals' = intervals
                   /\ published' = <<>>
          /\ (IsGrace(r) /\ r \in DOMAIN rooms)
                => /\ r \in DOMAIN rooms'
                   /\ intervals' = intervals
                   /\ IF rooms[r].currentRound >= rooms[r].settings.rounds
                      THEN rooms'[r] = [rooms[r] EXCEPT !.gameStatus = "gameEnd"]
                      ELSE IF Cardinality({i \in 1..Len(rooms[r].players) :
                                              rooms[r].players[i].isConnected}) < 2
                      THEN rooms'[r] = [rooms[r] EXCEPT !.gameStatus = "waiting"]
                      ELSE /\ rooms'[r].gameStatus = "playing"
                           /\ rooms'[r].currentRound = rooms[r].currentRound + 1
                           /\ rooms'[r].roundTimeLeft = rooms[r].settings.roundDuration
                           /\ rooms'[r].correctGuessers = <<>>
          /\ (last'.op = "grace.return" /\ last'.room = r)
                => /\ rooms' = rooms
                   /\ intervals'[r] =
                         IF /\ last'.message = "nextRound"
                            /\ r \in DOMAIN rooms
                            /\ Status(r) = "playing"
                         THEN intervals[r] + 1
                         ELSE intervals[r]
      ]_vars

\* the callback has started the timer of the second round, whose guessers
\* start empty after a first round with a correct guess
C24_Witness ==
    /\ last.op = "grace.return"
    /\ last.message = "nextRound"
    /\ last.room \in DOMAIN rooms
    /\ Status(last.room) = "playing"
    /\ rooms[last.room].currentRound = 2
    /\ rooms[last.room].correctGuessers = <<>>
    /\ intervals[last.room] = 1
    /\ \E i \in 1..Len(rooms[last.room].players) : rooms[last.room].players[i].score = 100

\* the connected player who follows the drawer in the join order, cyclically
NextInJoinOrder(room) ==
    LET n == Len(room.players)
        i == FindIndex(room.players, room.drawingPlayerId)
        At(k) == room.players[((i - 1 + k) % n) + 1]
        k == CHOOSE k \in 1..n :
                /\ At(k).isConnected
                /\ \A j \in 1..(k - 1) : ~At(j).isConnected
    IN At(k).id

\* C25: on a next-round transition the new drawer is the connected player
\* who follows the previous drawer in the join order, cyclically, also when
\* the previous drawer has left during the round.
C25_NextDrawerFollowsPrevious ==
    [][\A r \in DOMAIN rooms :
          (/\ last'.op = "grace.nextRound"
           /\ last'.room = r
           /\ rooms[r].drawingPlayerId \in Ids(rooms[r].players))
          => rooms'[r].drawingPlayerId = NextInJoinOrder(rooms[r])
      ]_vars

\* the interval callback has just run for room r
IsTick(r) == last'.op \in {"tick", "tick.stop", "tick.expire"} /\ last'.room = r

\* C26: a tick that finds its room absent or not playing stops its timer and
\* does nothing else: no room changes, no event is published, nothing is left
\* to run later and no fault is raised.
C26_TickOfDeadRoundStops ==
    [][\A r \in RoomIds :
          (/\ IsTick(r)
           /\ \/ r \notin DOMAIN rooms
              \/ Status(r) # "playing")
          => /\ last'.op = "tick.stop"
             /\ last'.success
             /\ rooms' = rooms
             /\ published' = <<>>
             /\ tasks' = tasks
             /\ timeouts' = timeouts
             /\ intervals'[r] = intervals[r] - 1
      ]_vars

\* the last timer of a room that was deleted hours after its creation has
\* just stopped
C26_Witness ==
    /\ last.op = "tick.stop"
    /\ last.room \notin DOMAIN rooms
    /\ last.room \in usedIds
    /\ intervals[last.room] = 0
    /\ now > 0

\* C27: a successful startGame picks as drawer a player who is connected at
\* that moment, sets playing, currentRound 1, roundTimeLeft = roundDuration
\* and a word of the word list, resets every score to 0, empties
\* correctGuessers, sets isDrawing for exactly the drawer, and, once the
\* write is done, starts a timer for the room that is still playing.
C27_StartGameEffect ==
    [][\A r \in RoomIds :
          /\ (last'.op = "startGame.run" /\ last'.room = r)
                => /\ r \in DOMAIN rooms /\ r \in DOMAIN rooms'
                   /\ \E i \in 1..Len(rooms[r].players) :
                         /\ rooms[r].players[i].isConnected
                         /\ rooms[r].players[i].id = rooms'[r].drawingPlayerId
                   /\ rooms'[r].gameStatus = "playing"
                   /\ rooms'[r].currentRound = 1
                   /\ rooms'[r].roundTimeLeft = rooms[r].settings.roundDuration
                   /\ rooms'[r].currentWord \in Range(WORDS)
                   /\ rooms'[r].correctGuessers = <<>>
                   /\ Len(rooms'[r].players) = Len(rooms[r].players)
                   /\ \A i \in 1..Len(rooms[r].players) :
                         rooms'[r].players[i] =
                            [id |-> rooms[r].players[i].id,
                             score |-> 0,
                             isDrawing |-> (rooms[r].players[i].id = rooms'[r].drawingPlayerId),
                             isConnected |-> rooms[r].players[i].isConnected]
                   /\ rooms'[r].settings = rooms[r].settings
                   /\ rooms'[r].hostId = rooms[r].hostId
                   /\ rooms'[r].messages = rooms[r].messages
          /\ (last'.op = "startGame.reply" /\ last'.room = r)
                => /\ rooms' = rooms
                   /\ intervals'[r] =
                         IF r \in DOMAIN rooms /\ Status(r) = "playing"
                         THEN intervals[r] + 1
                         ELSE intervals[r]
      ]_vars

\* a game started again after a correct guess: the scores are 0 and its timer
\* runs
C27_Witness ==
    /\ last.op = "startGame.reply"
    /\ last.room \in DOMAIN rooms
    /\ Status(last.room) = "playing"
    /\ rooms[last.room].currentRound = 1
    /\ intervals[last.room] = 1
    /\ \E i \in 1..Len(rooms[last.room].messages) :
          rooms[last.room].messages[i].isCorrect
    /\ \A i \in 1..Len(rooms[last.room].players) :
          rooms[last.room].players[i].score = 0

\* the message addMessage stores for a text that is no scoring guess
Plain(p, x) == [user |-> p, text |-> x, isCorrect |-> FALSE]

\* C28: a message scores only if the room is playing, the author is not the
\* drawer and not in correctGuessers and the text matches the word; a message
\* sent in waiting, roundEnd or gameEnd, or by the drawer, or not matching the
\* word, is appended unmodified with isCorrect = false and changes no score
\* and no correctGuessers.
C28_OnlyRealGuessesScore ==
    [][\A r \in RoomIds, p \in PlayerIds, x \in ChatTexts :
          (IsSendMessage(r, p, x) /\ r \in DOMAIN rooms)
          => /\ r \in DOMAIN rooms'
             /\ (\/ last'.isCorrect
                 \/ LastMessage(rooms'[r]).isCorrect
                 \/ rooms'[r].players # rooms[r].players
                 \/ rooms'[r].correctGuessers # rooms[r].correctGuessers)
                  => /\ Status(r) = "playing"
                     /\ p # rooms[r].drawingPlayerId
                     /\ p \notin Range(rooms[r].correctGuessers)
                     /\ EqualsIgnoringCaseAndMargins(x, rooms[r].currentWord)
             /\ (\/ Status(r) \in {"waiting", "roundEnd", "gameEnd"}
                 \/ p = rooms[r].drawingPlayerId
                 \/ ~EqualsIgnoringCaseAndMargins(x, rooms[r].currentWord))
                  => /\ rooms'[r] = [rooms[r] EXCEPT !.messages = Append(@, Plain(p, x))]
                     /\ ~last'.isCorrect
      ]_vars

\* the word itself, sent after the round by a player who has not scored, is
\* in the log as it was typed
C28_Witness ==
    /\ last.op = "sendMessage"
    /\ last.room \in DOMAIN rooms
    /\ Status(last.room) = "roundEnd"
    /\ last.player # rooms[last.room].drawingPlayerId
    /\ rooms[last.room].correctGuessers = <<>>
    /\ EqualsIgnoringCaseAndMargins(last.text, rooms[last.room].currentWord)
    /\ LastMessage(rooms[last.room]) = Plain(last.player, last.text)
    /\ \A i \in 1..Len(rooms[last.room].players) :
          rooms[last.room].players[i].score = 0

\* C29: if the author has guessed correctly this round, every further message
\* of that author during the round, whatever its text, is appended with the
\* "already guessed" marker as its text and changes no score.
C29_FurtherMessagesMarked ==
    [][\A r \in RoomIds, p \in PlayerIds, x \in ChatTexts :
          (/\ IsSendMessage(r, p, x)
           /\ r \in DOMAIN rooms
           /\ Status(r) = "playing"
           /\ p \in Range(rooms[r].correctGuessers))
          => /\ r \in DOMAIN rooms'
             /\ Len(rooms'[r].messages) = Len(rooms[r].messages) + 1
             /\ LastMessage(rooms'[r]).user = p
             /\ LastMessage(rooms'[r]).text = AlreadyMarker
             /\ rooms'[r].players = rooms[r].players
      ]_vars

\* small talk of a player who has guessed the word is in the log as typed
C29_Counterexample ==
    ~(/\ last.op = "sendMessage"
      /\ last.room \in DOMAIN rooms
      /\ Status(last.room) = "playing"
      /\ last.player \in Range(rooms[last.room].correctGuessers)
      /\ Len(rooms[last.room].messages) = 2
      /\ rooms[last.room].messages[1] =
            [user |-> last.player, text |-> GuessedMarker, isCorrect |-> TRUE]
      /\ last.text = <<"h", "i">>
      /\ rooms[last.room].messages[2] = Plain(last.player, <<"h", "i">>))

\* the step is one of the timer of room r, of its endRound or of its grace
\* delay
IsTimerWork(r) ==
    \/ IsTick(r)
    \/ IsGrace(r)
    \/ /\ last'.op \in {"endRound", "tick.roundEnded", "grace.return"}
       /\ last'.room = r

\* C30: a sweep deletes every room older than 6 hours, whoever is connected
\* and whatever its gameStatus, a playing room with a live timer included;
\* and for a room that is not in the store, its timer and its pending
\* grace-delay callback change nothing of the store.
C30_SweepRemovesOldRooms ==
    [][/\ IsSweep =>
            \A r \in DOMAIN rooms :
                now - rooms[r].createdAt > 6 => r \notin DOMAIN rooms'
       /\ \A r \in RoomIds :
            (r \notin DOMAIN rooms /\ IsTimerWork(r)) => rooms' = rooms
      ]_vars

\* a sweep has just removed a room for its age while the room's timer is
\* live
C30_Witness ==
    /\ last.op = "cleanupRooms"
    /\ last.message = "stale"
    /\ \E r \in usedIds \ DOMAIN rooms : intervals[r] > 0

\* the log b is the log a, or the log a with one message more at its end
SameOrOneMore(a, b) ==
    \/ b = a
    \/ /\ Len(b) = Len(a) + 1
       /\ SubSeq(b, 1, Len(a)) = a

\* C31: the message log of a room is append-only while the room lives: every
\* step leaves it as it was or appends exactly one message at its end;
\* startGame and the round transitions leave it as it was.
C31_MessagesAppendOnly ==
    [][\A r \in (DOMAIN rooms) \cap (DOMAIN rooms') :
          /\ SameOrOneMore(rooms[r].messages, rooms'[r].messages)
          /\ (\/ last'.op \in GraceOps
              \/ last'.op \in {"startGame.run", "endRound", "tick", "tick.expire"})
                => rooms'[r].messages = rooms[r].messages
      ]_vars

\* a game has just been started again on a room whose log holds a correct
\* guess of the game before
C31_Witness ==
    /\ last.op = "startGame.run"
    /\ last.room \in DOMAIN rooms
    /\ Len(rooms[last.room].messages) >= 1
    /\ rooms[last.room].messages[1].isCorrect
    /\ rooms[last.room].correctGuessers = <<>>

\* player p is a connected player of the room
ConnectedIn(room, p) ==
    \E i \in 1..Len(room.players) :
        room.players[i].id = p /\ room.players[i].isConnected

\* C32: a failing write of the mirror fails no command and rolls nothing
\* back: while the writes fail every command is accepted as it would be
\* otherwise, and after its step the store holds what the command computed.
C32_FailedWriteIsSwallowed ==
    [][(disk = "failing" /\ disk' = "failing") =>
          \A r \in RoomIds :
             /\ (last'.op = "createRoom" /\ last'.room = r)
                   => (last'.success /\ r \in DOMAIN rooms')
             /\ \A p \in PlayerIds :
                   /\ (IsCommand("joinRoom", r, p) /\ r \in DOMAIN rooms
                       /\ (\/ p \in Ids(rooms[r].players)
                           \/ Len(rooms[r].players) < rooms[r].settings.maxPlayers))
                         => /\ last'.success
                            /\ r \in DOMAIN rooms'
                            /\ ConnectedIn(rooms'[r], p)
                   /\ (IsCommand("leaveRoom", r, p) /\ r \in DOMAIN rooms
                       /\ p \in Ids(rooms[r].players))
                         => /\ last'.success
                            /\ r \in DOMAIN rooms' => ~ConnectedIn(rooms'[r], p)
                   /\ (IsCommand("sendMessage", r, p) /\ r \in DOMAIN rooms)
                         => /\ last'.success
                            /\ r \in DOMAIN rooms'
                            /\ Len(rooms'[r].messages) = Len(rooms[r].messages) + 1
                            /\ LastMessage(rooms'[r]).user = p
                            /\ last'.isCorrect
                                 => Player(r, p).score + 100
                                      = rooms'[r].players[FindIndex(rooms[r].players, p)].score
             /\ (last'.op \in {"startGame", "startGame.run"} /\ last'.room = r
                 /\ r \in DOMAIN rooms /\ Len(Connected(r)) >= 2)
                   => /\ last'.op = "startGame.run" /\ last'.success
                      /\ rooms'[r].gameStatus = "playing"
                      /\ rooms'[r].currentRound = 1
             /\ (last'.op = "startGame.reply" /\ last'.room = r)
                   => (last'.success /\ rooms' = rooms)
             /\ (last'.op \in {"tick", "tick.expire"} /\ last'.room = r)
                   => rooms'[r].roundTimeLeft = rooms[r].roundTimeLeft - 1
             /\ (last'.op = "endRound" /\ last'.room = r /\ last'.success)
                   => rooms'[r].gameStatus = "roundEnd"
             /\ (last'.op = "grace.gameEnd" /\ last'.room = r)
                   => rooms'[r].gameStatus = "gameEnd"
             /\ (last'.op = "grace.waiting" /\ last'.room = r)
                   => rooms'[r].gameStatus = "waiting"
             /\ (last'.op = "grace.nextRound" /\ last'.room = r)
                   => /\ rooms'[r].gameStatus = "playing"
                      /\ rooms'[r].currentRound = rooms[r].currentRound + 1
      ]_vars

\* while the writes fail a guess has been accepted and scored
C32_Witness ==
    /\ disk = "failing"
    /\ last.op = "sendMessage"
    /\ last.success
    /\ last.isCorrect
    /\ last.room \in DOMAIN rooms
    /\ Player(last.room, last.player).score = 100
    /\ Len(rooms[last.room].messages) = 1

\* C33: whenever createRoom replies success with a room id, the store holds
\* a room with that id at that moment and the host is a connected player of
\* it, also when a sweep ran while createRoom was writing.
C33_CreatedRoomHoldsHost ==
    (last.op = "createRoom.reply" /\ last.success)
        => /\ last.room \in DOMAIN rooms
           /\ ConnectedIn(rooms[last.room], last.player)

\* C34: a room deleted while the expiry handling is suspended inside
\* endRound never makes the timer callback read the missing room: the
\* callback completes without a fault and publishes nothing for the room.
C34_ExpiryNeverReadsMissingRoom ==
    (last.op = "tick.roundEnded" /\ last.room \notin DOMAIN rooms)
        => /\ last.success
           /\ last.message # "TypeError"
           /\ published = <<>>

\* the roundEnded events among the events of a step
RoundEndedOf(events, r) ==
    {i \in 1..Len(events) : events[i].type = "roundEnded" /\ events[i].room = r}

\* C35: for a round that ends by the expiry of its timer, roundEnded is
\* published exactly once, when the timer callback resumes and before the
\* grace delay runs, and it carries the number and the word of the round
\* that endRound ended; no other step publishes roundEnded.
C35_RoundEndedOfEndedRound ==
    [][\A r \in RoomIds :
          /\ (last'.op = "tick.roundEnded" /\ last'.room = r /\ r \in DOMAIN rooms)
                => /\ Cardinality(RoundEndedOf(published', r)) = 1
                   /\ Len(endedLog[r]) = 1
                   /\ \A i \in RoundEndedOf(published', r) :
                         published'[i].payload = endedLog[r][1]
          /\ (last'.op # "tick.roundEnded" \/ last'.room # r)
                => RoundEndedOf(published', r) = {}
      ]_vars

\* C36: in every reachable state of every room roundTimeLeft is between 0
\* and settings.roundDuration, which a room that is counted down once per
\* tick period never leaves.
C36_TimeLeftInRange ==
    \A r \in DOMAIN rooms :
        /\ 0 <= rooms[r].roundTimeLeft
        /\ rooms[r].roundTimeLeft <= rooms[r].settings.roundDuration

\* C37: in every reachable state of every room a player has isDrawing = true
\* if and only if the player's id is drawingPlayerId, so at most one player
\* has it, in every status.
C37_DrawingFlagIsDrawer ==
    \A r \in DOMAIN rooms :
        /\ \A i \in 1..Len(rooms[r].players) :
              rooms[r].players[i].isDrawing
                 <=> (rooms[r].players[i].id = rooms[r].drawingPlayerId)
        /\ Cardinality(Drawing(r)) <= 1

\* a next round has just passed the pencil from one player to another
C37_Witness ==
    /\ last.op = "grace.nextRound"
    /\ last.room \in DOMAIN rooms
    /\ Len(drawLog[last.room]) = 2
    /\ drawLog[last.room][1] # drawLog[last.room][2]
    /\ rooms[last.room].drawingPlayerId = drawLog[last.room][2]
    /\ Cardinality(Drawing(last.room)) = 1

\* every score of the room is a multiple of 100 and at most 100 a round
ScoresWithinRounds(room) ==
    \A i \in 1..Len(room.players) :
        /\ room.players[i].score % 100 = 0
        /\ room.players[i].score >= 0
        /\ room.players[i].score <= 100 * room.currentRound

\* the step begins a round of room r: a startGame or a next round
BeginsRound(r) ==
    last'.op \in {"startGame.run", "grace.nextRound"} /\ last'.room = r

\* C38: a player is credited at most once per round: every score is a
\* multiple of 100 and at most 100 * currentRound, and within a round no step
\* changes the score of the player who draws it.
C38_OneCreditPerRound ==
    /\ [](\A r \in DOMAIN rooms : ScoresWithinRounds(rooms[r]))
    /\ [][\A r \in (DOMAIN rooms) \cap (DOMAIN rooms') :
             (Status(r) = "playing" /\ ~BeginsRound(r))
             => \A i \in 1..Len(rooms[r].players) :
                   rooms[r].players[i].id = rooms[r].drawingPlayerId
                      => /\ i <= Len(rooms'[r].players)
                         /\ rooms'[r].players[i].id = rooms[r].players[i].id
                         /\ rooms'[r].players[i].score = rooms[r].players[i].score
        ]_vars

\* the second round's guess has just been credited: both players hold 100,
\* the drawer the 100 of the round before
C38_Witness ==
    /\ last.op = "sendMessage"
    /\ last.isCorrect
    /\ last.room \in DOMAIN rooms
    /\ rooms[last.room].currentRound = 2
    /\ Len(rooms[last.room].players) = 2
    /\ \A i \in 1..Len(rooms[last.room].players) :
          rooms[last.room].players[i].score = 100

\* C39: in every reachable state every room of the store that has a player
\* has as hostId the id of one of its connected players.
C39_HostIsConnected ==
    \A r \in DOMAIN rooms :
        Len(rooms[r].players) >= 1 => ConnectedIn(rooms[r], rooms[r].hostId)

\* the creator of the room has just left and another connected player is
\* the host
C39_Witness ==
    /\ last.op = "leaveRoom"
    /\ last.success
    /\ last.player \in HostIds
    /\ last.room \in DOMAIN rooms
    /\ rooms[last.room].hostId # last.player
    /\ ConnectedIn(rooms[last.room], rooms[last.room].hostId)
    /\ last.player \in Ids(rooms[last.room].players)

\* C40: when the socket of a client drops without a leaveRoom, the client's
\* player is marked not connected, so after the sweep of the disconnect no
\* room is left in the store all of whose players have dropped.
C40_DroppedClientIsDisconnected ==
    last.op = "disconnect"
        => \A r \in DOMAIN rooms :
              /\ ~ConnectedIn(rooms[r], last.player)
              /\ Ids(rooms[r].players) # {} => ~(Ids(rooms[r].players) \subseteq dropped)

====
